---- MODULE Spec2Model ----
(***************************************************************************)
(* Model of warp's reply decorators (src/filters/reply.rs):                *)
(*   header / default_header      construct a WithHeader / WithDefaultHeader*)
(*   WrapSealed::wrap             clone the decorator into a Map layer      *)
(*   WithHeader_::call            HeaderMap::insert on the reply            *)
(*   WithDefaultHeader_::call     HeaderMap::entry(..).or_insert_with(..)   *)
(*                                                                         *)
(* Strings are sequences of bytes.  A HeaderMap is the sequence of its     *)
(* buckets, one per distinct name, each holding that name's values in      *)
(* order, with the danger level and the size of its hash index.  A wrapped *)
(* filter is the sequence of its Map layers, innermost first.              *)
(***************************************************************************)
EXTENDS Integers, Sequences, FiniteSets, TLC

VARIABLES
    args,     \* the (name, value) of the most recent constructor call
    panic,    \* "none", or the message the constructor panicked with
    dec,      \* the decorator the most recent constructor call returned
    route,    \* the wrapped filter: its Map layers, innermost first
    serving,  \* the filter has been handed to the server
    inv       \* per invocation: position, inner outcome, current outcome

vars == <<args, panic, dec, route, serving, inv>>

----------------------------------------------------------------------------
(* Bounds *)

\* most decorators wrapped around the inner filter
MaxWraps == 2
\* invocations that may run concurrently on the served filter
NumInvocations == 2
\* most header values the inner filter's response holds, over all names
MaxPriorValues == 2

Invocations == 1..NumInvocations

\* name arguments handed to the constructors: "a", "A", "b", "", "a\n", "a b"
NameInputs == { <<97>>, <<65>>, <<98>>, <<>>, <<97, 10>>, <<97, 32, 98>> }
\* value arguments handed to the constructors: "x", "y", "\n", "x<DEL>"
ValueInputs == { <<120>>, <<121>>, <<10>>, <<120, 127>> }

\* the narrower inputs of the concurrent specification: "a", "A", "\n" / "x", "y", "\n"
SharedNameInputs == { <<97>>, <<65>>, <<10>> }
SharedValueInputs == { <<120>>, <<121>>, <<10>> }

Statuses == { 200, 404 }
Bodies == { "hello" }
Rejections == { "not_found", "method_not_allowed" }

----------------------------------------------------------------------------
(* http::header::{HeaderName, HeaderValue} conversions *)

\* http::header::name::MAX_HEADER_NAME_LEN, (1 << 16) - 1
MAX_HEADER_NAME_LEN == 65535

\* RFC 7230 tchar, the bytes HeaderName accepts
IsTchar(b) ==
    \/ b \in 48..57
    \/ b \in 65..90
    \/ b \in 97..122
    \/ b \in {33, 35, 36, 37, 38, 39, 42, 43, 45, 46, 94, 95, 96, 124, 126}

Lower(b) == IF b \in 65..90 THEN b + 32 ELSE b

\* <HeaderName as HttpTryFrom<K>>::try_from: non-empty, at most
\* MAX_HEADER_NAME_LEN bytes, tchars only, canonicalised to lower case
HeaderName_try_from(src) ==
    IF \/ Len(src) = 0
       \/ Len(src) > MAX_HEADER_NAME_LEN
       \/ \E i \in 1..Len(src) : ~IsTchar(src[i])
    THEN [ok |-> FALSE]
    ELSE [ok |-> TRUE, val |-> [i \in 1..Len(src) |-> Lower(src[i])]]

\* <HeaderValue as HttpTryFrom<V>>::try_from: visible ASCII, space, tab
\* and opaque bytes; no other control bytes
HeaderValue_try_from(src) ==
    IF \A i \in 1..Len(src) : (src[i] >= 32 /\ src[i] # 127) \/ src[i] = 9
    THEN [ok |-> TRUE, val |-> src]
    ELSE [ok |-> FALSE]

\* assert_name_and_value without the value conversion's check
assert_name_and_value_unchecked(name, value) ==
    LET n == HeaderName_try_from(name)
    IN  IF ~n.ok THEN [panic |-> "invalid header name"]
        ELSE [panic |-> "none", name |-> n.val, value |-> value]

\* assert_name_and_value: the name is converted first, then the value;
\* the first failing conversion panics
assert_name_and_value(name, value) ==
    LET n == HeaderName_try_from(name)
        v == HeaderValue_try_from(value)
    IN  IF ~n.ok THEN [panic |-> "invalid header name"]
        ELSE IF ~v.ok THEN [panic |-> "invalid header value"]
        ELSE [panic |-> "none", name |-> n.val, value |-> v.val]

----------------------------------------------------------------------------
(* http::HeaderMap *)

\* a HeaderMap: its buckets in insertion order, the danger level of its hash
\* index ("green", "yellow" once an insertion has shifted too many slots,
\* "red" once the index has been rebuilt under the safe hasher), and the
\* number of slots of its index table
HeaderMap(buckets, danger, slots) ==
    [buckets |-> buckets, danger |-> danger, slots |-> slots]

HasName(buckets, name) == \E k \in 1..Len(buckets) : buckets[k].name = name

IndexOf(buckets, name) == CHOOSE k \in 1..Len(buckets) : buckets[k].name = name

\* http::header::map::MAX_SIZE, 1 << 15: the most index slots a map has
MAX_SIZE == 32768

\* http::header::map::DISPLACEMENT_THRESHOLD: an insertion that shifts this
\* many index slots raises a green map to yellow
DISPLACEMENT_THRESHOLD == 128

\* usable_capacity: the names an index table of cap slots takes, three quarters
usable_capacity(cap) == cap - cap \div 4

\* the most names a map holds
MaxNames == usable_capacity(MAX_SIZE)

\* entries / slots >= LOAD_FACTOR_THRESHOLD, which is one fifth
LoadReached(len, slots) == 5 * len >= slots

Grown(headers) == [ok |-> TRUE, map |-> headers]
Overflow(headers) ==
    [ok |-> FALSE, panic |-> "size overflows MAX_SIZE", map |-> headers]

\* try_grow: the index table is resized, unless that takes it past MAX_SIZE
HeaderMap_grow(headers, new_raw_cap) ==
    IF new_raw_cap > MAX_SIZE THEN Overflow(headers)
    ELSE Grown([headers EXCEPT !.slots = new_raw_cap])

\* reserve_one: a yellow map turns green and doubles its index table when it
\* is loaded to the threshold, and turns red (its index rebuilt) when it is
\* not; any other map doubles its table when its names fill it, an empty
\* unallocated one gets its first eight slots
HeaderMap_reserve_one(headers) ==
    LET len == Len(headers.buckets)
    IN  IF headers.danger = "yellow"
        THEN IF LoadReached(len, headers.slots)
             THEN HeaderMap_grow([headers EXCEPT !.danger = "green"],
                                 2 * headers.slots)
             ELSE Grown([headers EXCEPT !.danger = "red"])
        ELSE IF len = usable_capacity(headers.slots)
        THEN IF len = 0
             THEN Grown([headers EXCEPT !.slots = 8])
             ELSE HeaderMap_grow(headers, 2 * headers.slots)
        ELSE Grown(headers)

\* a new last bucket; `displaced` says that placing it in the index shifted
\* DISPLACEMENT_THRESHOLD slots or more (that hangs on the hashes of the
\* names, and takes that many names in the map), which raises green to yellow
HeaderMap_push(headers, name, value, displaced) ==
    [headers EXCEPT
        !.buckets = Append(headers.buckets, [name |-> name, values |-> <<value>>]),
        !.danger = IF /\ displaced
                      /\ headers.danger = "green"
                      /\ Len(headers.buckets) >= DISPLACEMENT_THRESHOLD
                   THEN "yellow" ELSE headers.danger]

\* HeaderMap::insert: room for one more name is reserved before the name is
\* looked up, whatever the name, and that panics when the index table would
\* pass MAX_SIZE; then an occupied bucket keeps its place, drops its extra
\* values and takes the new value, and a vacant name gets a new last bucket
HeaderMap_insert(headers, name, value, displaced) ==
    LET r == HeaderMap_reserve_one(headers)
    IN  IF ~r.ok THEN r
        ELSE IF HasName(r.map.buckets, name)
        THEN Grown([r.map EXCEPT
                      !.buckets[IndexOf(r.map.buckets, name)].values = <<value>>])
        ELSE Grown(HeaderMap_push(r.map, name, value, displaced))

\* HeaderMap::entry(name).or_insert_with(f): entry reserves room first, as
\* insert does; then only a vacant name is filled
HeaderMap_or_insert(headers, name, value, displaced) ==
    LET r == HeaderMap_reserve_one(headers)
    IN  IF ~r.ok THEN r
        ELSE IF HasName(r.map.buckets, name)
        THEN r
        ELSE Grown(HeaderMap_push(r.map, name, value, displaced))

----------------------------------------------------------------------------
(* mod sealed: the functions the Map layers call *)

Ok(resp) == [tag |-> "ok", resp |-> resp]
Err(e) == [tag |-> "err", err |-> e]
Panicked(msg) == [tag |-> "panic", msg |-> msg]

\* Reply_(resp) around the mutated response, or the panic of the mutation
Reply_(resp, h) ==
    IF h.ok THEN Ok([resp EXCEPT !.headers = h.map]) ELSE Panicked(h.panic)

\* a replace that uses entry().or_insert_with()
WithHeader_call_or_insert(with, resp, displaced) ==
    Reply_(resp, HeaderMap_or_insert(resp.headers, with.name, with.value, displaced))

\* a call that answers with a response of its own instead of the reply's
WithHeader_call_fresh(with, resp, displaced) ==
    Ok([status |-> 200, body |-> resp.body,
        headers |-> HeaderMap(<<[name |-> with.name, values |-> <<with.value>>]>>,
                              "green", 8)])

\* WithHeader_::call
WithHeader_call(with, resp, displaced) ==
    Reply_(resp, HeaderMap_insert(resp.headers, with.name, with.value, displaced))

\* a default that uses insert
WithDefaultHeader_call_insert(with, resp, displaced) ==
    Reply_(resp, HeaderMap_insert(resp.headers, with.name, with.value, displaced))

\* WithDefaultHeader_::call
WithDefaultHeader_call(with, resp, displaced) ==
    Reply_(resp, HeaderMap_or_insert(resp.headers, with.name, with.value, displaced))

\* Func::call of a Map layer, by the layer's function type
Func_call(layer, resp, displaced) ==
    IF layer.func = "WithHeader_"
    THEN WithHeader_call(layer.with, resp, displaced)
    ELSE WithDefaultHeader_call(layer.with, resp, displaced)

\* WrapSealed<F> for WithHeader: filter.map(WithHeader_ { with: self.clone() })
WithHeader_wrap(self, filter) ==
    Append(filter, [func |-> "WithHeader_", with |-> self])

\* WrapSealed<F> for WithDefaultHeader
WithDefaultHeader_wrap(self, filter) ==
    Append(filter, [func |-> "WithDefaultHeader_", with |-> self])

----------------------------------------------------------------------------
(* Values *)

NoArgs == [called |-> FALSE]
NoDec == [type |-> "none"]
Pending == [tag |-> "pending"]
Idle == [pc |-> "idle", inner |-> Pending, cur |-> Pending, layer |-> 0, ran |-> <<>>]

\* canonical names and values a response of the inner filter may carry
HeaderNames == { <<97>>, <<98>> }
HeaderValues == { <<120>>, <<121>> }

ValueSeqs == UNION { [1..n -> HeaderValues] : n \in 1..MaxPriorValues }
Buckets == [name : HeaderNames, values : ValueSeqs]
BucketSeqs == UNION { [1..n -> Buckets] : n \in 0..Cardinality(HeaderNames) }

RECURSIVE TotalValues(_)
TotalValues(buckets) ==
    IF buckets = <<>> THEN 0
    ELSE Len(Head(buckets).values) + TotalValues(Tail(buckets))

\* a map that was built by inserting its names into a new map: green, and
\* unallocated while empty, eight slots from its first name on
NewMap(buckets) ==
    HeaderMap(buckets, "green", IF buckets = <<>> THEN 0 ELSE 8)

\* the header maps an inner filter can return: one bucket per name
InnerHeaderMaps ==
    { NewMap(h) : h \in
        { b \in BucketSeqs :
            /\ \A j, k \in 1..Len(b) : j # k => b[j].name # b[k].name
            /\ TotalValues(b) <= MaxPriorValues } }

SmallResponses == [status : Statuses, body : Bodies, headers : InnerHeaderMaps]

\* the k-th of the four-letter names "aaaa", "aaab", ...
LongName(k) ==
    << 97 + ((k \div 17576) % 26), 97 + ((k \div 676) % 26),
       97 + ((k \div 26) % 26), 97 + (k % 26) >>

\* the buckets of n four-letter names, one value each
ManyNames(n) == [k \in 1..n |-> [name |-> LongName(k), values |-> <<<<120>>>>]]

\* a response of n names whose index table has grown to MAX_SIZE slots
LargeResponse(n, danger) ==
    [status |-> 200, body |-> "hello",
     headers |-> HeaderMap(ManyNames(n), danger, MAX_SIZE)]

\* a response whose header map is full
FullResponses == { LargeResponse(MaxNames, "green") }

\* a response whose header map is one name short of full
NearFullResponses == { LargeResponse(MaxNames - 1, "green") }

\* the most names a map of MAX_SIZE slots holds below the load threshold
LightLoad == MAX_SIZE \div 5

\* responses whose map is yellow and holds LightLoad names, or one more
YellowResponses ==
    { LargeResponse(LightLoad, "yellow"), LargeResponse(LightLoad + 1, "yellow") }

\* a response whose map is green and holds LightLoad names
LightResponses == { LargeResponse(LightLoad, "green") }

InnerResponses == SmallResponses \cup FullResponses

\* the responses of the specification of the map's limit
LargeResponses ==
    NearFullResponses \cup FullResponses \cup YellowResponses \cup LightResponses

\* its name arguments: the narrower ones and one byte more than a name may have
LongNameInputs ==
    SharedNameInputs \cup { [k \in 1..(MAX_HEADER_NAME_LEN + 1) |-> 97] }

\* the narrower responses of the concurrent specification
SharedInnerResponses ==
    { r \in SmallResponses :
        /\ r.status = 200
        /\ TotalValues(r.headers.buckets) <= 1
        /\ \A k \in 1..Len(r.headers.buckets) : r.headers.buckets[k].name = <<97>> }

----------------------------------------------------------------------------
(* Actions *)

Init ==
    /\ args = NoArgs
    /\ panic = "none"
    /\ dec = NoDec
    /\ route = <<>>
    /\ serving = FALSE
    /\ inv = [i \in Invocations |-> Idle]

\* header(name, value)
Header(name, value) ==
    /\ panic = "none"
    /\ ~serving
    /\ LET r == assert_name_and_value(name, value)
       IN  /\ args' = [called |-> TRUE, name |-> name, value |-> value]
           /\ panic' = r.panic
           /\ dec' = IF r.panic = "none"
                     THEN [type |-> "WithHeader", name |-> r.name, value |-> r.value]
                     ELSE NoDec
    /\ UNCHANGED <<route, serving, inv>>

\* default_header(name, value)
DefaultHeader(name, value) ==
    /\ panic = "none"
    /\ ~serving
    /\ LET r == assert_name_and_value(name, value)
       IN  /\ args' = [called |-> TRUE, name |-> name, value |-> value]
           /\ panic' = r.panic
           /\ dec' = IF r.panic = "none"
                     THEN [type |-> "WithDefaultHeader", name |-> r.name, value |-> r.value]
                     ELSE NoDec
    /\ UNCHANGED <<route, serving, inv>>

\* filter.with(&dec) for a WithHeader: the filter is consumed, the decorator kept
WrapWithHeader ==
    /\ panic = "none"
    /\ ~serving
    /\ dec.type = "WithHeader"
    /\ Len(route) < MaxWraps
    /\ route' = WithHeader_wrap([name |-> dec.name, value |-> dec.value], route)
    /\ UNCHANGED <<args, panic, dec, serving, inv>>

\* filter.with(&dec) for a WithDefaultHeader
WrapWithDefaultHeader ==
    /\ panic = "none"
    /\ ~serving
    /\ dec.type = "WithDefaultHeader"
    /\ Len(route) < MaxWraps
    /\ route' = WithDefaultHeader_wrap([name |-> dec.name, value |-> dec.value], route)
    /\ UNCHANGED <<args, panic, dec, serving, inv>>

\* the configuration ends: the filter is moved into the server and the
\* configuration's own decorator values are dropped
Serve ==
    /\ panic = "none"
    /\ ~serving
    /\ serving' = TRUE
    /\ args' = NoArgs
    /\ dec' = NoDec
    /\ UNCHANGED <<panic, route, inv>>

\* a request arrives: the outermost Map polls inwards down to the inner filter
Invoke(i) ==
    /\ serving
    /\ inv[i].pc = "idle"
    /\ inv' = [inv EXCEPT ![i].pc = "inner"]
    /\ UNCHANGED <<args, panic, dec, route, serving>>

\* where an invocation stands once `passed` layers have seen the outcome
After(passed) == IF passed = Len(route) THEN "done" ELSE "map"

\* where an invocation stands once layer k's call has returned or panicked
Landed(k, outcome) == IF outcome.tag = "panic" THEN "panicked" ELSE After(k)

\* the inner filter extracts One<R>; R::into_response() is the response
InnerSucceeds(i, resp) ==
    /\ inv[i].pc = "inner"
    /\ inv' = [inv EXCEPT ![i] =
                 [pc |-> After(0), inner |-> Ok(resp), cur |-> Ok(resp),
                  layer |-> 0, ran |-> <<>>]]
    /\ UNCHANGED <<args, panic, dec, route, serving>>

\* the inner filter rejects
InnerRejects(i, e) ==
    /\ inv[i].pc = "inner"
    /\ inv' = [inv EXCEPT ![i] =
                 [pc |-> After(0), inner |-> Err(e), cur |-> Err(e),
                  layer |-> 0, ran |-> <<>>]]
    /\ UNCHANGED <<args, panic, dec, route, serving>>

\* a call that moves the value out of the shared decorator instead of cloning it
Call_takes_value(i) ==
    /\ inv[i].pc = "map"
    /\ inv[i].layer < Len(route)
    /\ inv[i].cur.tag = "ok"
    /\ \E displaced \in BOOLEAN :
          LET k == inv[i].layer + 1
              out == Func_call(route[k], inv[i].cur.resp, displaced)
          IN  /\ inv' = [inv EXCEPT ![i] =
                           [pc |-> Landed(k, out), inner |-> inv[i].inner,
                            cur |-> out, layer |-> k, ran |-> Append(inv[i].ran, k)]]
              /\ route' = [route EXCEPT ![k].with.value = <<>>]
    /\ UNCHANGED <<args, panic, dec, serving>>

\* a Map layer receives Ok(args) and runs Func::call(&self, args) on it; a
\* panic of the call unwinds the invocation.  Whether the insertion shifts
\* the index past the threshold is open: it hangs on the names' hashes
Call(i) ==
    /\ inv[i].pc = "map"
    /\ inv[i].layer < Len(route)
    /\ inv[i].cur.tag = "ok"
    /\ \E displaced \in BOOLEAN :
          LET k == inv[i].layer + 1
              out == Func_call(route[k], inv[i].cur.resp, displaced)
          IN  inv' = [inv EXCEPT ![i] =
                        [pc |-> Landed(k, out), inner |-> inv[i].inner,
                         cur |-> out, layer |-> k, ran |-> Append(inv[i].ran, k)]]
    /\ UNCHANGED <<args, panic, dec, route, serving>>

\* a layer that answers a rejection with a decorated empty reply
PassThrough_decorates(i) ==
    /\ inv[i].pc = "map"
    /\ inv[i].layer < Len(route)
    /\ inv[i].cur.tag = "err"
    /\ LET k == inv[i].layer + 1
       IN  inv' = [inv EXCEPT ![i] =
                     [pc |-> After(k), inner |-> inv[i].inner,
                      cur |-> Func_call(route[k],
                                 [status |-> 200, body |-> "",
                                  headers |-> NewMap(<<>>)], FALSE),
                      layer |-> k, ran |-> Append(inv[i].ran, k)]]
    /\ UNCHANGED <<args, panic, dec, route, serving>>

\* a Map layer receives a rejection and hands it on
PassThrough(i) ==
    /\ inv[i].pc = "map"
    /\ inv[i].layer < Len(route)
    /\ inv[i].cur.tag = "err"
    /\ LET k == inv[i].layer + 1
       IN  inv' = [inv EXCEPT ![i].pc = After(k), ![i].layer = k]
    /\ UNCHANGED <<args, panic, dec, route, serving>>

Configure(names, values) ==
    \/ \E n \in names, v \in values : Header(n, v)
    \/ \E n \in names, v \in values : DefaultHeader(n, v)
    \/ WrapWithHeader
    \/ WrapWithDefaultHeader
    \/ Serve

Handle(i, responses) ==
    \/ Invoke(i)
    \/ \E r \in responses : InnerSucceeds(i, r)
    \/ \E e \in Rejections : InnerRejects(i, e)
    \/ Call(i)
    \/ PassThrough(i)

\* one invocation at a time, every input
Next ==
    \/ Configure(NameInputs, ValueInputs)
    \/ Handle(1, InnerResponses)

Spec == Init /\ [][Next]_vars

\* concurrent invocations of one served filter
NextShared ==
    \/ Configure(SharedNameInputs, SharedValueInputs)
    \/ \E i \in Invocations : Handle(i, SharedInnerResponses)

SpecShared == Init /\ [][NextShared]_vars

\* one invocation at a time, header maps at and next to their limit
NextLarge ==
    \/ Configure(LongNameInputs, SharedValueInputs)
    \/ Handle(1, LargeResponses)

SpecLarge == Init /\ [][NextLarge]_vars

----------------------------------------------------------------------------
(* Vocabulary of the properties *)

\* every header entry (value) a collection holds for name, in order: the
\* values of the name's bucket
EntriesFor(headers, name) ==
    IF HasName(headers.buckets, name)
    THEN headers.buckets[IndexOf(headers.buckets, name)].values
    ELSE <<>>

\* the buckets of every other name, in order
OtherBuckets(headers, name) ==
    LET Other(b) == b.name # name IN SelectSeq(headers.buckets, Other)

\* what a client can tell of an outcome: a response's status, body and header
\* buckets, not the state of its map's index
Observable(outcome) ==
    IF outcome.tag = "ok"
    THEN Ok([outcome.resp EXCEPT !.headers = outcome.resp.headers.buckets])
    ELSE outcome

\* this step is invocation i's next layer running its call
CallStep(i) ==
    /\ inv[i].pc = "map"
    /\ inv[i].cur.tag = "ok"
    /\ inv'[i].layer = inv[i].layer + 1

\* the outcomes of the layers 1..n applied in order to resp, by one
\* invocation on its own
RECURSIVE RunAlone(_, _, _)
RunAlone(layers, n, resp) ==
    IF n = 0 THEN { Ok(resp) }
    ELSE UNION { IF prev.tag = "ok"
                 THEN { Func_call(layers[n], prev.resp, d) : d \in BOOLEAN }
                 ELSE { prev } : prev \in RunAlone(layers, n - 1, resp) }

\* a decorator value as the constructors build it: canonical name, valid value
ValidDecorator(d) ==
    /\ HeaderName_try_from(d.name) = [ok |-> TRUE, val |-> d.name]
    /\ HeaderValue_try_from(d.value) = [ok |-> TRUE, val |-> d.value]

\* invocation i has finished successfully through a two-layer filter whose
\* layers are of types f1 (inner) and f2 (outer) and carry the same name
DoneThroughPair(i, f1, f2) ==
    /\ inv[i].pc = "done"
    /\ inv[i].cur.tag = "ok"
    /\ Len(route) = 2
    /\ route[1].func = f1
    /\ route[2].func = f2
    /\ route[1].with.name = route[2].with.name

----------------------------------------------------------------------------
(* C1 *)

\* C1: whenever a WithHeader_ layer runs its call on a response, whatever the
\* response holds, the call yields a response, and that response holds
\* exactly one entry for the layer's name, equal to the layer's value.
C1_ReplaceYieldsExactlyOne ==
    [][\A i \in Invocations :
          CallStep(i) /\ route[inv'[i].layer].func = "WithHeader_" =>
             LET w == route[inv'[i].layer].with
             IN  /\ inv'[i].cur.tag = "ok"
                 /\ EntriesFor(inv'[i].cur.resp.headers, w.name) = <<w.value>>]_vars

----------------------------------------------------------------------------
(* C2 *)

\* C2: whenever a WithDefaultHeader_ layer runs its call, the call yields a
\* response; a response with no entry for the layer's name ends with exactly
\* one entry equal to the layer's value, and a response with entries for the
\* name keeps them as they were (same count, values and order).
C2_DefaultOnlyFillsVacant ==
    [][\A i \in Invocations :
          CallStep(i) /\ route[inv'[i].layer].func = "WithDefaultHeader_" =>
             /\ inv'[i].cur.tag = "ok"
             /\ LET w == route[inv'[i].layer].with
                    before == EntriesFor(inv[i].cur.resp.headers, w.name)
                    after == EntriesFor(inv'[i].cur.resp.headers, w.name)
                IN  /\ before = <<>> => after = <<w.value>>
                    /\ before # <<>> => after = before]_vars

----------------------------------------------------------------------------
(* C3 *)

\* C3: an invocation whose inner filter rejected has run no transformation
\* and carries exactly the inner rejection; an invocation whose inner filter
\* succeeded has run the transformation of every layer it has passed exactly
\* once, innermost first, and has passed every layer when it is done; and no
\* transformation runs before the inner filter has succeeded.
C3_TransformOnlyOnSuccess ==
    \A i \in Invocations :
        /\ inv[i].inner.tag = "err" =>
              inv[i].ran = <<>> /\ inv[i].cur = inv[i].inner
        /\ inv[i].inner.tag = "ok" =>
              inv[i].ran = [k \in 1..inv[i].layer |-> k]
        /\ inv[i].pc = "done" => inv[i].layer = Len(route)
        /\ inv[i].ran # <<>> => inv[i].inner.tag = "ok"

\* a rejection has come out of a filter wrapped in two decorators
C3_Witness ==
    /\ inv[1].pc = "done"
    /\ inv[1].inner.tag = "err"
    /\ inv[1].cur = inv[1].inner
    /\ Len(route) = 2
    /\ inv[1].layer = 2

----------------------------------------------------------------------------
(* C4 *)

\* C4: through WithHeader(name, a) inside WithHeader(name, b), a successful
\* invocation ends with exactly one entry for name, equal to b.
C4_OuterReplaceWins ==
    \A i \in Invocations :
        DoneThroughPair(i, "WithHeader_", "WithHeader_") =>
            EntriesFor(inv[i].cur.resp.headers, route[2].with.name)
                = <<route[2].with.value>>

\* such an invocation with a # b, on an inner response that held a
C4_Witness ==
    /\ DoneThroughPair(1, "WithHeader_", "WithHeader_")
    /\ route[1].with.value # route[2].with.value
    /\ EntriesFor(inv[1].inner.resp.headers, route[1].with.name) = <<route[1].with.value>>
    /\ EntriesFor(inv[1].cur.resp.headers, route[1].with.name) = <<route[2].with.value>>

----------------------------------------------------------------------------
(* C5 *)

\* C5: through WithDefaultHeader(name, a) inside WithDefaultHeader(name, b),
\* a successful invocation whose inner response had no entry for name ends
\* with exactly one entry, equal to a; one whose inner response had entries
\* for name ends with exactly those entries.
C5_InnerDefaultWins ==
    \A i \in Invocations :
        DoneThroughPair(i, "WithDefaultHeader_", "WithDefaultHeader_") =>
            LET before == EntriesFor(inv[i].inner.resp.headers, route[1].with.name)
                after == EntriesFor(inv[i].cur.resp.headers, route[1].with.name)
            IN  /\ before = <<>> => after = <<route[1].with.value>>
                /\ before # <<>> => after = before

\* such an invocation with a # b, on an inner response with no entry for name
C5_Witness ==
    /\ DoneThroughPair(1, "WithDefaultHeader_", "WithDefaultHeader_")
    /\ route[1].with.value # route[2].with.value
    /\ EntriesFor(inv[1].inner.resp.headers, route[1].with.name) = <<>>
    /\ EntriesFor(inv[1].cur.resp.headers, route[1].with.name) = <<route[1].with.value>>

----------------------------------------------------------------------------
(* C6 *)

\* the decorators that exist: the one the configuration holds and the clones
\* the filter's layers hold
Decorators ==
    (IF dec = NoDec THEN {} ELSE {[name |-> dec.name, value |-> dec.value]})
    \cup { route[k].with : k \in 1..Len(route) }

\* C6, as stated: a constructor call fails with "invalid header name" when
\* its name is invalid and with "invalid header value" when its value is
\* invalid, a failed call returns no decorator, and every decorator that
\* exists holds a valid name and a valid value.
C6_AsStated ==
    /\ args.called =>
          /\ ~HeaderName_try_from(args.name).ok => panic = "invalid header name"
          /\ ~HeaderValue_try_from(args.value).ok => panic = "invalid header value"
          /\ panic # "none" => dec = NoDec
    /\ \A d \in Decorators : ValidDecorator(d)

\* C6, amended: a constructor call fails with "invalid header name" when its
\* name is invalid, and with "invalid header value" when its name is valid
\* and its value is invalid; a failed call returns no decorator, and every
\* decorator that exists holds a valid name and a valid value.
C6_NameCheckedFirst ==
    /\ args.called =>
          /\ ~HeaderName_try_from(args.name).ok => panic = "invalid header name"
          /\ HeaderName_try_from(args.name).ok /\ ~HeaderValue_try_from(args.value).ok
                => panic = "invalid header value"
          /\ panic # "none" => dec = NoDec
    /\ \A d \in Decorators : ValidDecorator(d)

\* a constructor was called with a valid name and an invalid value after a
\* decorator had been wrapped: it panicked on the value and returned nothing
C6_Witness ==
    /\ args.called
    /\ HeaderName_try_from(args.name).ok
    /\ ~HeaderValue_try_from(args.value).ok
    /\ panic = "invalid header value"
    /\ dec = NoDec
    /\ Len(route) >= 1

----------------------------------------------------------------------------
(* C7 *)

\* C7: when a layer runs its call on the response that an equal layer just
\* produced, the response comes out identical in status, body and headers
\* (for both layer types).
C7_Idempotent ==
    [][\A i \in Invocations :
          CallStep(i) /\ inv[i].layer >= 1
                      /\ route[inv'[i].layer] = route[inv[i].layer] =>
             Observable(inv'[i].cur) = Observable(inv[i].cur)]_vars

----------------------------------------------------------------------------
(* C8 *)

\* C8: the response a layer's call produces has the status, the body and the
\* buckets of every other name (values and order) of the response the call
\* was given; and the call changes nothing outside that response: the
\* filter's layers, the configuration, the invocation's record of the inner
\* outcome and every other invocation stay as they were.
C8_OnlyNamedHeaderChanges ==
    [][\A i \in Invocations :
          CallStep(i) =>
             /\ inv'[i].inner = inv[i].inner
             /\ \A j \in Invocations \ {i} : inv'[j] = inv[j]
             /\ <<args, panic, dec, route, serving>>'
                    = <<args, panic, dec, route, serving>>
             /\ inv'[i].cur.tag = "ok" =>
                   LET w == route[inv'[i].layer].with
                       before == inv[i].cur.resp
                       after == inv'[i].cur.resp
                   IN  /\ after.status = before.status
                       /\ after.body = before.body
                       /\ OtherBuckets(after.headers, w.name)
                              = OtherBuckets(before.headers, w.name)]_vars

\* a 404 response holding a header of another name ahead of the decorator's
\* name has passed a WithHeader_ layer that changed the named header only
C8_Witness ==
    /\ inv[1].layer = 1
    /\ inv[1].cur.tag = "ok"
    /\ route[1].func = "WithHeader_"
    /\ inv[1].inner.resp.status = 404
    /\ Len(inv[1].inner.resp.headers.buckets) = 2
    /\ inv[1].inner.resp.headers.buckets[2].name = route[1].with.name
    /\ inv[1].inner.resp.headers.buckets[2].values # <<route[1].with.value>>
    /\ inv[1].cur.resp.status = 404
    /\ inv[1].cur.resp.headers.buckets[1] = inv[1].inner.resp.headers.buckets[1]
    /\ inv[1].cur.resp # inv[1].inner.resp

----------------------------------------------------------------------------
(* C9 *)

\* C9: under every interleaving of the invocations of one served filter, a
\* layer once wrapped keeps its name and value, a step of one invocation
\* leaves every other invocation as it was, and each invocation's response
\* is one that its inner response gives when the layers it has passed are
\* applied to it alone.
C9_InvocationsIsolated ==
    [][/\ \A k \in 1..Len(route) : Len(route') >= k /\ route'[k] = route[k]
       /\ \A i \in Invocations :
             inv'[i] # inv[i] => \A j \in Invocations \ {i} : inv'[j] = inv[j]
       /\ \A i \in Invocations :
             inv'[i].inner.tag = "ok" =>
                inv'[i].cur \in RunAlone(route', inv'[i].layer, inv'[i].inner.resp)]_vars

\* two invocations of a filter wrapped twice in the same decorator are under
\* way at once, at different layers, on different inner responses
C9_Witness ==
    /\ Len(route) = 2
    /\ route[1] = route[2]
    /\ inv[1].pc = "map" /\ inv[1].layer = 1
    /\ inv[2].pc = "done" /\ inv[2].layer = 2
    /\ inv[1].inner.tag = "ok"
    /\ inv[2].inner.tag = "ok"
    /\ inv[1].inner # inv[2].inner
    /\ inv[1].cur # inv[2].cur

----------------------------------------------------------------------------
(* C10 *)

\* C10: through one WithHeader(name, r) and one WithDefaultHeader(name, d),
\* nested either way, a successful invocation ends with exactly one entry for
\* name, equal to r.
C10_ReplaceBeatsDefault ==
    \A i \in Invocations :
        /\ DoneThroughPair(i, "WithHeader_", "WithDefaultHeader_") =>
              EntriesFor(inv[i].cur.resp.headers, route[1].with.name)
                  = <<route[1].with.value>>
        /\ DoneThroughPair(i, "WithDefaultHeader_", "WithHeader_") =>
              EntriesFor(inv[i].cur.resp.headers, route[2].with.name)
                  = <<route[2].with.value>>

\* the default is the outer layer, d # r, and the inner response held d
C10_Witness ==
    /\ DoneThroughPair(1, "WithHeader_", "WithDefaultHeader_")
    /\ route[1].with.value # route[2].with.value
    /\ EntriesFor(inv[1].inner.resp.headers, route[1].with.name) = <<route[2].with.value>>
    /\ EntriesFor(inv[1].cur.resp.headers, route[1].with.name) = <<route[1].with.value>>

====
